---- MODULE Spec2Model ----
(***************************************************************************)
(* Model of app/routers/sales_cases.py: the HTTP router of the sales cases *)
(* (create, list, read, return).  The four handlers are translated from    *)
(* the source.  The collaborators they call (auth dependencies, the crud   *)
(* module, the framework's default error response) are not part of the     *)
(* file and are modelled from the specification.                           *)
(***************************************************************************)
EXTENDS Integers, Sequences, FiniteSets, TLC

VARIABLES cases, stock, last, faults

vars == <<cases, stock, last, faults>>

\* ---------------------------------------------------------------- bounds
MaxCases == 2
MaxStock == 2

\* ------------------------------------------------------- users and roles
\* models.UserRole, as the router uses it
ADMIN == "ADMIN"
SALES_REP == "SALES_REP"

\* models.User rows known to the auth layer: id -> role
Users == [i \in {1, 2, 3} |-> IF i = 1 THEN ADMIN ELSE SALES_REP]

\* A caller is a user id, or Anonymous (no valid credentials)
Anonymous == 0
Callers == DOMAIN Users \cup {Anonymous}

UserOf(id) == [id |-> id, role |-> Users[id]]

\* Optional[T]: None is the empty set, a value x is {x}
None == {}
Some(x) == {x}

\* ---------------------------------------------------- python exceptions
NoExc == "None"

\* direct base class of a builtin exception type
Base(t) ==
  CASE t = "ValueError" -> "Exception"
    [] t = "PermissionError" -> "OSError"
    [] t = "OSError" -> "Exception"
    [] t = "KeyError" -> "LookupError"
    [] t = "LookupError" -> "Exception"
    [] t = "AttributeError" -> "Exception"
    [] OTHER -> "Exception"

RECURSIVE IsInstance(_, _)
\* does `except cls` catch an exception of type t
IsInstance(t, cls) ==
  \/ t = cls
  \/ t # "Exception" /\ IsInstance(Base(t), cls)

\* exception types a misbehaving collaborator may raise
FaultTypes == {"ValueError", "PermissionError", "OSError", "KeyError"}

Faults == IF faults THEN FaultTypes \cup {NoExc} ELSE {NoExc}

\* a call that fails at once reads none of its arguments: one value stands for all
Args(fault, S) == IF fault = NoExc THEN S ELSE {CHOOSE x \in S : TRUE}

FaultMsg == "collaborator failure"

\* --------------------------------------------------------- crud results
CrudOk(db, value, report) ==
  [exc |-> NoExc, msg |-> "", value |-> value, report |-> report,
   cases |-> db.cases, stock |-> db.stock]

\* a raise leaves the database as it was (the operations are transactional)
CrudRaise(db, exc, msg) ==
  [exc |-> exc, msg |-> msg, value |-> None, report |-> <<>>,
   cases |-> db.cases, stock |-> db.stock]

IsValidRep(id) == id \in DOMAIN Users /\ Users[id] = SALES_REP

\* crud.create_sales_case: a case takes one unit of stock
crud_create_sales_case(db, case_create, fault) ==
  IF fault # NoExc THEN CrudRaise(db, fault, FaultMsg)
  ELSE IF ~IsValidRep(case_create.sales_rep_id)
    THEN CrudRaise(db, "ValueError", "Invalid sales rep")
  ELSE IF db.stock = 0
    THEN CrudRaise(db, "ValueError", "Insufficient stock")
  ELSE LET new_case == [id |-> Len(db.cases) + 1,
                        sales_rep_id |-> case_create.sales_rep_id,
                        status |-> "OPEN"]
       IN [exc |-> NoExc, msg |-> "", value |-> Some(new_case), report |-> <<>>,
           cases |-> Append(db.cases, new_case),
           stock |-> db.stock - 1]

\* crud.get_sales_cases
crud_get_sales_cases(db, current_user, status, sales_rep_id, fault) ==
  IF fault # NoExc THEN CrudRaise(db, fault, FaultMsg)
  ELSE LET rep == IF current_user.role = SALES_REP
                    THEN Some(current_user.id) ELSE sales_rep_id
       IN CrudOk(db, {db.cases[i] : i \in
                       {j \in DOMAIN db.cases :
                          /\ (status = None \/ db.cases[j].status \in status)
                          /\ (rep = None \/ db.cases[j].sales_rep_id \in rep)}},
                 <<>>)

\* crud.get_sales_case
crud_get_sales_case(db, case_id, fault) ==
  IF fault # NoExc THEN CrudRaise(db, fault, FaultMsg)
  ELSE IF case_id \in DOMAIN db.cases
    THEN CrudOk(db, Some(db.cases[case_id]), <<>>)
    ELSE CrudOk(db, None, <<>>)

\* crud.process_sales_case_return without the ownership rule
crud_process_sales_case_return_any(db, case_id, return_request, current_user, fault) ==
  IF fault # NoExc THEN CrudRaise(db, fault, FaultMsg)
  ELSE IF case_id \notin DOMAIN db.cases
    THEN CrudRaise(db, "ValueError", "Sales case not found")
  ELSE IF db.cases[case_id].status # "OPEN"
    THEN CrudRaise(db, "ValueError", "Sales case is not open")
  ELSE IF return_request.sold > 1
    THEN CrudRaise(db, "ValueError", "Sold quantity exceeds case quantity")
  ELSE LET back == 1 - return_request.sold
       IN [exc |-> NoExc, msg |-> "", value |-> None,
           report |-> <<[case_id |-> case_id, sold |-> return_request.sold,
                         returned |-> back]>>,
           cases |-> [db.cases EXCEPT ![case_id].status = "CLOSED"],
           stock |-> db.stock + back]

\* crud.process_sales_case_return
crud_process_sales_case_return(db, case_id, return_request, current_user, fault) ==
  IF fault # NoExc THEN CrudRaise(db, fault, FaultMsg)
  ELSE IF case_id \notin DOMAIN db.cases
    THEN CrudRaise(db, "ValueError", "Sales case not found")
  ELSE IF current_user.role = SALES_REP
          /\ db.cases[case_id].sales_rep_id # current_user.id
    THEN CrudRaise(db, "PermissionError", "Not authorized to return this sales case")
  ELSE crud_process_sales_case_return_any(db, case_id, return_request, current_user, fault)

\* ------------------------------------------------ results of a handler
\* the handler returned normally; the route's status code applies
Returned(code, r, name) ==
  [status |-> code, body |-> r.value, report |-> r.report, detail |-> "",
   unhandled |-> NoExc, cases |-> r.cases, stock |-> r.stock,
   crud |-> name, crud_exc |-> r.exc, crud_msg |-> r.msg]

\* raise HTTPException(status_code=code, detail=detail)
HTTPException(code, detail, r, name) ==
  [status |-> code, body |-> None, report |-> <<>>, detail |-> detail,
   unhandled |-> NoExc, cases |-> r.cases, stock |-> r.stock,
   crud |-> name, crud_exc |-> r.exc, crud_msg |-> r.msg]

\* an exception that leaves the handler
Propagated(exc, r, name) ==
  [status |-> 0, body |-> None, report |-> <<>>, detail |-> "",
   unhandled |-> exc, cases |-> r.cases, stock |-> r.stock,
   crud |-> name, crud_exc |-> r.exc, crud_msg |-> r.msg]

\* str(e) of an exception built from one message
Str(r) == r.msg

\* the framework's answer to an exception no handler caught
Framework(res) ==
  IF res.unhandled = NoExc THEN res
  ELSE [res EXCEPT !.status = 500, !.detail = "Internal Server Error"]

\* ------------------------------------------------------- dependencies
\* auth.require_admin_user
require_admin_user(caller) ==
  IF caller \notin DOMAIN Users THEN [ok |-> FALSE, status |-> 401, user |-> None]
  ELSE IF Users[caller] # ADMIN THEN [ok |-> FALSE, status |-> 403, user |-> None]
  ELSE [ok |-> TRUE, status |-> 200, user |-> Some(UserOf(caller))]

\* auth.require_admin_or_sales_rep
require_admin_or_sales_rep(caller) ==
  IF caller \notin DOMAIN Users THEN [ok |-> FALSE, status |-> 401, user |-> None]
  ELSE IF Users[caller] \notin {ADMIN, SALES_REP}
    THEN [ok |-> FALSE, status |-> 403, user |-> None]
  ELSE [ok |-> TRUE, status |-> 200, user |-> Some(UserOf(caller))]

\* Depends(auth.<name>)
Depends(name, caller) ==
  IF name = "require_admin_user" THEN require_admin_user(caller)
  ELSE require_admin_or_sales_rep(caller)

\* the response when a dependency rejects the caller: the handler never runs
Rejected(auth, db) ==
  [status |-> auth.status, body |-> None, report |-> <<>>,
   detail |-> "Not authorized", unhandled |-> NoExc,
   cases |-> db.cases, stock |-> db.stock,
   crud |-> "None", crud_exc |-> NoExc, crud_msg |-> ""]

\* the dependency each route declares
CreateDependencyAny == "require_admin_or_sales_rep"
CreateDependency == "require_admin_user"
ListDependency == "require_admin_or_sales_rep"
ReadDependency == "require_admin_or_sales_rep"
ReturnDependency == "require_admin_or_sales_rep"

\* ------------------------------------------------------------ handlers
HTTP_201_CREATED == 201
HTTP_400_BAD_REQUEST == 400
HTTP_403_FORBIDDEN == 403

\* create without the except clause
create_new_sales_case_nocatch(db, case_create, fault) ==
  LET r == crud_create_sales_case(db, case_create, fault)
  IN IF r.exc = NoExc THEN Returned(HTTP_201_CREATED, r, "create_sales_case")
     ELSE Propagated(r.exc, r, "create_sales_case")

\* create with the except clauses of the return handler
create_new_sales_case_perm(db, case_create, fault) ==
  LET r == crud_create_sales_case(db, case_create, fault)
  IN IF r.exc = NoExc THEN Returned(HTTP_201_CREATED, r, "create_sales_case")
     ELSE IF IsInstance(r.exc, "ValueError")
       THEN HTTPException(HTTP_400_BAD_REQUEST, Str(r), r, "create_sales_case")
     ELSE IF IsInstance(r.exc, "PermissionError")
       THEN HTTPException(HTTP_403_FORBIDDEN, Str(r), r, "create_sales_case")
     ELSE Propagated(r.exc, r, "create_sales_case")

create_new_sales_case(db, case_create, fault) ==
  LET r == crud_create_sales_case(db, case_create, fault)
  IN IF r.exc = NoExc THEN Returned(HTTP_201_CREATED, r, "create_sales_case")
     ELSE IF IsInstance(r.exc, "ValueError")
       THEN HTTPException(HTTP_400_BAD_REQUEST, Str(r), r, "create_sales_case")
     ELSE Propagated(r.exc, r, "create_sales_case")

\* list that applies the requested filters itself, without the caller
read_sales_cases_unscoped(db, status, sales_rep_id, current_user, fault) ==
  LET r == crud_get_sales_cases(db, [id |-> current_user.id, role |-> ADMIN],
                                status, sales_rep_id, fault)
  IN IF r.exc = NoExc THEN Returned(200, r, "get_sales_cases")
     ELSE Propagated(r.exc, r, "get_sales_cases")

read_sales_cases(db, status, sales_rep_id, current_user, fault) ==
  LET r == crud_get_sales_cases(db, current_user, status, sales_rep_id, fault)
  IN IF r.exc = NoExc THEN Returned(200, r, "get_sales_cases")
     ELSE Propagated(r.exc, r, "get_sales_cases")

\* read without the authorization check
read_sales_case_noauth(db, case_id, current_user, fault) ==
  LET r == crud_get_sales_case(db, case_id, fault)
  IN IF r.exc # NoExc THEN Propagated(r.exc, r, "get_sales_case")
     ELSE IF r.value = None
       THEN HTTPException(404, "Sales case not found", r, "get_sales_case")
     ELSE Returned(200, r, "get_sales_case")

\* read with the authorization check before the not-found check:
\* None.sales_rep_id raises AttributeError
read_sales_case_swapped(db, case_id, current_user, fault) ==
  LET r == crud_get_sales_case(db, case_id, fault)
  IN IF r.exc # NoExc THEN Propagated(r.exc, r, "get_sales_case")
     ELSE IF current_user.role = SALES_REP /\ r.value = None
       THEN Propagated("AttributeError", r, "get_sales_case")
     ELSE IF current_user.role = SALES_REP
             /\ \E c \in r.value : c.sales_rep_id # current_user.id
       THEN HTTPException(403, "Not authorized to view this sales case", r, "get_sales_case")
     ELSE IF r.value = None
       THEN HTTPException(404, "Sales case not found", r, "get_sales_case")
     ELSE Returned(200, r, "get_sales_case")

\* read with the ownership check applied to every role
read_sales_case_strict(db, case_id, current_user, fault) ==
  LET r == crud_get_sales_case(db, case_id, fault)
  IN IF r.exc # NoExc THEN Propagated(r.exc, r, "get_sales_case")
     ELSE IF r.value = None
       THEN HTTPException(404, "Sales case not found", r, "get_sales_case")
     ELSE IF \E c \in r.value : c.sales_rep_id # current_user.id
       THEN HTTPException(403, "Not authorized to view this sales case", r, "get_sales_case")
     ELSE Returned(200, r, "get_sales_case")

read_sales_case(db, case_id, current_user, fault) ==
  LET r == crud_get_sales_case(db, case_id, fault)
  IN IF r.exc # NoExc THEN Propagated(r.exc, r, "get_sales_case")
     ELSE IF r.value = None
       THEN HTTPException(404, "Sales case not found", r, "get_sales_case")
     ELSE IF current_user.role = SALES_REP
             /\ \E c \in r.value : c.sales_rep_id # current_user.id
       THEN HTTPException(403, "Not authorized to view this sales case", r, "get_sales_case")
     ELSE Returned(200, r, "get_sales_case")

\* return whose 400 carries a fixed detail
return_sales_case_fixed(db, case_id, return_request, current_user, fault) ==
  LET r == crud_process_sales_case_return(db, case_id, return_request, current_user, fault)
  IN IF r.exc = NoExc THEN Returned(200, r, "process_sales_case_return")
     ELSE IF IsInstance(r.exc, "ValueError")
       THEN HTTPException(HTTP_400_BAD_REQUEST, "Bad request", r, "process_sales_case_return")
     ELSE IF IsInstance(r.exc, "PermissionError")
       THEN HTTPException(HTTP_403_FORBIDDEN, Str(r), r, "process_sales_case_return")
     ELSE Propagated(r.exc, r, "process_sales_case_return")

\* return without the except PermissionError clause
return_sales_case_noperm(db, case_id, return_request, current_user, fault) ==
  LET r == crud_process_sales_case_return(db, case_id, return_request, current_user, fault)
  IN IF r.exc = NoExc THEN Returned(200, r, "process_sales_case_return")
     ELSE IF IsInstance(r.exc, "ValueError")
       THEN HTTPException(HTTP_400_BAD_REQUEST, Str(r), r, "process_sales_case_return")
     ELSE Propagated(r.exc, r, "process_sales_case_return")

return_sales_case(db, case_id, return_request, current_user, fault) ==
  LET r == crud_process_sales_case_return(db, case_id, return_request, current_user, fault)
  IN IF r.exc = NoExc THEN Returned(200, r, "process_sales_case_return")
     ELSE IF IsInstance(r.exc, "ValueError")
       THEN HTTPException(HTTP_400_BAD_REQUEST, Str(r), r, "process_sales_case_return")
     ELSE IF IsInstance(r.exc, "PermissionError")
       THEN HTTPException(HTTP_403_FORBIDDEN, Str(r), r, "process_sales_case_return")
     ELSE Propagated(r.exc, r, "process_sales_case_return")

\* ------------------------------------------------------------- requests
DB == [cases |-> cases, stock |-> stock]

\* ids a request may name: users and one id that is no user
RepIds == DOMAIN Users \cup {9}
CaseIds == 1..(MaxCases + 1)
\* a case holds one unit of stock; a report of two sold units is invalid
SoldCounts == {0, 1, 2}
StatusFilters == {None, Some("OPEN"), Some("CLOSED")}
RepFilters == {None} \cup {Some(i) : i \in {2, 3}}

\* the request served last and its response
Record(endpoint, caller, case_id, rep_filter, res) ==
  [endpoint |-> endpoint, caller |-> caller, case_id |-> case_id,
   rep_filter |-> rep_filter,
   status |-> res.status, body |-> res.body, report |-> res.report,
   detail |-> res.detail, unhandled |-> res.unhandled,
   crud |-> res.crud, crud_exc |-> res.crud_exc, crud_msg |-> res.crud_msg]

Respond(endpoint, caller, case_id, rep_filter, res) ==
  /\ Len(res.cases) <= MaxCases
  /\ res.stock <= MaxStock
  /\ cases' = res.cases
  /\ stock' = res.stock
  /\ last' = Record(endpoint, caller, case_id, rep_filter, res)
  /\ UNCHANGED faults

\* POST /sales-cases/
PostCreate ==
  \E caller \in Callers, fault \in Faults :
  \E rep \in Args(fault, RepIds) :
    LET auth == Depends(CreateDependency, caller)
        res == IF ~auth.ok THEN Rejected(auth, DB)
               ELSE Framework(create_new_sales_case(
                      DB, [sales_rep_id |-> rep], fault))
    IN \E r \in {res} : Respond("create", caller, 0, None, r)

\* GET /sales-cases/
GetList ==
  \E caller \in Callers, fault \in Faults :
  \E status \in Args(fault, StatusFilters), rep \in Args(fault, RepFilters) :
    LET auth == Depends(ListDependency, caller)
        res == IF ~auth.ok THEN Rejected(auth, DB)
               ELSE Framework(read_sales_cases(
                      DB, status, rep, CHOOSE u \in auth.user : TRUE, fault))
    IN \E r \in {res} : Respond("list", caller, 0, rep, r)

\* GET /sales-cases/{case_id}
GetCase ==
  \E caller \in Callers, case_id \in CaseIds, fault \in Faults :
    LET auth == Depends(ReadDependency, caller)
        res == IF ~auth.ok THEN Rejected(auth, DB)
               ELSE Framework(read_sales_case(
                      DB, case_id, CHOOSE u \in auth.user : TRUE, fault))
    IN \E r \in {res} : Respond("get", caller, case_id, None, r)

\* POST /sales-cases/{case_id}/return
PostReturn ==
  \E caller \in Callers, case_id \in CaseIds, fault \in Faults :
  \E sold \in Args(fault, SoldCounts) :
    LET auth == Depends(ReturnDependency, caller)
        res == IF ~auth.ok THEN Rejected(auth, DB)
               ELSE Framework(return_sales_case(
                      DB, case_id, [sold |-> sold], CHOOSE u \in auth.user : TRUE, fault))
    IN \E r \in {res} : Respond("return", caller, case_id, None, r)

NoRequest ==
  [endpoint |-> "none", caller |-> Anonymous, case_id |-> 0,
   rep_filter |-> None,
   status |-> 0, body |-> None, report |-> <<>>,
   detail |-> "", unhandled |-> NoExc,
   crud |-> "None", crud_exc |-> NoExc, crud_msg |-> ""]

InitDB ==
  /\ cases = <<>>
  /\ stock = MaxStock
  /\ last = NoRequest

\* the collaborators keep to their contracts
Init == InitDB /\ faults = FALSE

\* a crud call may also raise any of FaultTypes
InitFault == InitDB /\ faults = TRUE

Next == PostCreate \/ GetList \/ GetCase \/ PostReturn

Spec == Init /\ [][Next]_vars

SpecFault == InitFault /\ [][Next]_vars

\* ---------------------------------------------------------- properties
IsRole(caller, role) == caller \in DOMAIN Users /\ Users[caller] = role

\* the last request names a case that exists and belongs to another rep
OtherRepsCase(db_cases) ==
  /\ IsRole(last.caller, SALES_REP)
  /\ last.case_id \in DOMAIN db_cases
  /\ db_cases[last.case_id].sales_rep_id # last.caller

\* C1: a SALES_REP reading an existing case of another rep gets 403 and
\* the case is not in the response.
C1_ReadOtherRepsCaseForbidden ==
  (last.endpoint = "get" /\ OtherRepsCase(cases))
    => (last.status = 403 /\ last.body = None)

C1_Witness ==
  /\ last.endpoint = "get"
  /\ OtherRepsCase(cases)
  /\ last.crud = "get_sales_case"
  /\ last.status = 403

\* C2: an authenticated user reading a case id that does not exist gets
\* 404, never 403 or 200, whatever the role.
C2_ReadMissingCaseNotFound ==
  (/\ last.endpoint = "get"
   /\ last.caller \in DOMAIN Users
   /\ last.case_id \notin DOMAIN cases)
    => (last.status = 404 /\ last.body = None)

C2_Witness ==
  /\ last.endpoint = "get"
  /\ IsRole(last.caller, SALES_REP)
  /\ last.case_id \notin DOMAIN cases
  /\ cases # <<>>
  /\ last.status = 404

\* C3: a create request of a caller who is not an ADMIN is rejected with
\* 401 or 403, crud.create_sales_case is not invoked for it, and the cases
\* and the stock are as before the request.
C3_NonAdminNeverCreates ==
  [][(last'.endpoint = "create" /\ ~IsRole(last'.caller, ADMIN))
       => /\ last'.status \in {401, 403}
          /\ last'.crud = "None"
          /\ last'.body = None
          /\ cases' = cases
          /\ stock' = stock]_vars

C3_Witness ==
  /\ last.endpoint = "create"
  /\ IsRole(last.caller, SALES_REP)
  /\ last.status = 403
  /\ stock > 0

\* C4: every case in the list returned to a SALES_REP belongs to the
\* caller, whatever filter was passed.
C4_ListScopedToCaller ==
  (last.endpoint = "list" /\ IsRole(last.caller, SALES_REP))
    => \A c \in last.body : c.sales_rep_id = last.caller

C4_Witness ==
  /\ last.endpoint = "list"
  /\ IsRole(last.caller, SALES_REP)
  /\ last.status = 200
  /\ last.rep_filter # None
  /\ last.caller \notin last.rep_filter
  /\ last.body # None
  /\ \E i \in DOMAIN cases : cases[i].sales_rep_id \in last.rep_filter

C6_ReturnValueErrorIs400 ==
  (last.endpoint = "return" /\ last.crud_exc = "ValueError")
    => /\ last.status = 400
       /\ last.detail = last.crud_msg
       /\ last.report = <<>>
       /\ last.body = None

C6_Witness ==
  /\ last.endpoint = "return"
  /\ last.crud_exc = "ValueError"
  /\ last.status = 400
  /\ last.detail = "Sales case is not open"

\* C7: when crud.process_sales_case_return raises a PermissionError the
\* answer is 403, and there is no report.
C7_ReturnPermissionErrorIs403 ==
  (last.endpoint = "return" /\ last.crud_exc = "PermissionError")
    => /\ last.status = 403
       /\ last.report = <<>>
       /\ last.body = None

C7_Witness ==
  /\ last.endpoint = "return"
  /\ last.crud_exc = "PermissionError"
  /\ last.status = 403

\* C8: a create request of an ADMIN ends in exactly one of two ways: crud
\* created the case and the answer is 201 with that case, or crud raised a
\* business-rule ValueError and the answer is 400 with its message.
C8_AdminCreateOutcome ==
  (last.endpoint = "create" /\ IsRole(last.caller, ADMIN))
    => \/ /\ last.crud_exc = NoExc
          /\ last.status = 201
          /\ cases # <<>>
          /\ last.body = {cases[Len(cases)]}
          /\ last.detail = ""
       \/ /\ last.crud_exc = "ValueError"
          /\ last.status = 400
          /\ last.body = None
          /\ last.detail = last.crud_msg
          /\ last.detail \in {"Insufficient stock", "Invalid sales rep"}

C8_Witness ==
  /\ last.endpoint = "create"
  /\ IsRole(last.caller, ADMIN)
  /\ last.status = 400
  /\ last.detail = "Insufficient stock"
  /\ Len(cases) = MaxStock

\* C9: an exception of the crud layer is translated only where the endpoint
\* catches it (ValueError in create and return to 400, PermissionError in
\* return to 403); every other one leaves the handler and is answered 500.
C9_OnlyHandledErrorsTranslated ==
  (last.crud_exc # NoExc)
    => /\ last.status =
            IF last.endpoint \in {"create", "return"} /\ last.crud_exc = "ValueError"
              THEN 400
            ELSE IF last.endpoint = "return" /\ last.crud_exc = "PermissionError"
              THEN 403
            ELSE 500
       /\ last.status = 500 => last.unhandled = last.crud_exc
       /\ last.status # 500 => last.unhandled = NoExc
       /\ last.body = None

C9_Witness ==
  /\ last.endpoint = "create"
  /\ last.crud_exc = "PermissionError"
  /\ last.status = 500
  /\ cases # <<>>

\* C10: a read answers 200 exactly when the case exists and the caller is
\* an ADMIN or the case's rep, and then the body is that case.
C10_ReadOkIffAllowed ==
  (last.endpoint = "get")
    => /\ (last.status = 200) <=>
            /\ last.caller \in DOMAIN Users
            /\ last.case_id \in DOMAIN cases
            /\ \/ Users[last.caller] = ADMIN
               \/ cases[last.case_id].sales_rep_id = last.caller
       /\ last.status = 200 => last.body = {cases[last.case_id]}

C10_Witness ==
  /\ last.endpoint = "get"
  /\ IsRole(last.caller, ADMIN)
  /\ last.case_id \in DOMAIN cases
  /\ cases[last.case_id].sales_rep_id # last.caller
  /\ last.status = 200

====
